---- MODULE Spec2Model ----
(***************************************************************************)
(* Model of the 8x8 LED symbol shifters of the slot machine animation:     *)
(*   shiftSymbolHorizontal (animations.cpp:4-10)                           *)
(*   shiftSymbolVertical   (animations.cpp:13-20)                          *)
(*                                                                         *)
(* Two specifications share the definitions of the row computations:       *)
(*   Spec      - a caller applies whole calls one after the other, the     *)
(*               output of a call (cur) being the input of the next one    *)
(*               (prev is the input of the last call);                     *)
(*   SpecSteps - two invocations run concurrently on three buffers, one    *)
(*               memory access (load of in[..], store to out[r]) a step.   *)
(***************************************************************************)
EXTENDS Integers, Sequences, FiniteSets, TLC

VARIABLES input, prev, cur, calls, mem, mem0, thr, row, wcount

vars == <<input, prev, cur, calls, mem, mem0, thr, row, wcount>>
pureVars == <<input, prev, cur, calls>>
stepVars == <<mem, mem0, thr, row, wcount>>

---------------------------------------------------------------------------
(* Program constants *)

\* in[8], out[8]; for (r = 0; r < 8; r++)
NumRows == 8
\* uint8_t: values 0..255
ByteMod == 256

Rows == 0..(NumRows - 1)
Bytes == 0..(ByteMod - 1)

(* Bounds of the model *)

\* input symbols of Spec: NumSymbols * 8 rows, every byte value at 32
NumSymbols == 32
\* vertical shifts of Spec are drawn from -MaxShift..MaxShift
MaxShift == 9
\* calls a caller of Spec chains
MaxCalls == 2
\* periods k of "s + 8*k" range over -MaxK..MaxK
MaxK == 2
\* vertical shifts of SpecSteps are drawn from -MaxStepShift..MaxStepShift
MaxStepShift == 3
\* input symbols of SpecSteps
NumStepSymbols == 1

---------------------------------------------------------------------------
(* Integer and bit arithmetic of C *)

\* a % b of C (b > 0): the remainder truncates toward zero
CRem(a, b) == IF a >= 0 THEN a % b ELSE -((-a) % b)

\* x << n and x >> n on a non-negative int (the uint8_t operand is promoted
\* to int; 255 << 7 = 32640 fits a 16-bit int)
Shl(x, n) == x * (2 ^ n)
Shr(x, n) == x \div (2 ^ n)

RECURSIVE BitOr(_, _)
\* x | y on non-negative ints
BitOr(x, y) ==
    IF x = 0 THEN y
    ELSE IF y = 0 THEN x
    ELSE (IF x % 2 = 1 \/ y % 2 = 1 THEN 1 ELSE 0) + 2 * BitOr(x \div 2, y \div 2)

\* bit c of byte x
Bit(x, c) == (x \div (2 ^ c)) % 2

---------------------------------------------------------------------------
(* shiftSymbolHorizontal *)

\* a row computation that forgets the wrapped bits
HRowNoWrap(rw, shift) == Shl(rw, shift) % ByteMod
\* a row computation that rotates toward the low-order bits
HRowRight(rw, shift) == BitOr(Shr(rw, shift), Shl(rw, 8 - shift)) % ByteMod

\* out[r] = (row << shift) | (row >> (8 - shift)), truncated to uint8_t
HRow(rw, shift) == BitOr(Shl(rw, shift), Shr(rw, 8 - shift)) % ByteMod

\* a loop body that reads the row after r
HSrcNext(r) == (r + 1) % NumRows

\* uint8_t row = in[r]: the row index step r reads
HSrc(r) == r

\* the whole call on separate buffers: the output symbol
ShiftSymbolHorizontal(in, shift) ==
    [r \in Rows |-> HRow(in[HSrc(r)], shift)]

---------------------------------------------------------------------------
(* shiftSymbolVertical *)

\* normalisations a slip would produce
NormShiftTrunc(shift) == CRem(shift, 8)
NormShiftAbs(shift) == (IF shift < 0 THEN -shift ELSE shift) % 8
NormShiftClamp(shift) == IF shift < 0 THEN 0 ELSE IF shift > 7 THEN 7 ELSE shift
NormShiftMod7(shift) == CRem(CRem(shift, 7) + 7, 7)

\* shift = ((shift % 8) + 8) % 8
NormShift(shift) == CRem(CRem(shift, 8) + 8, 8)

\* a row index that moves the content upward
VSrcUp(r, shift) == CRem(r + shift, 8)

\* in[(r - shift + 8) % 8]: the row index step r reads, shift normalised
VSrc(r, shift) == CRem(r - shift + 8, 8)

\* the whole call on separate buffers: the output symbol
ShiftSymbolVertical(in, shift) ==
    [r \in Rows |-> in[VSrc(r, NormShift(shift))]]

---------------------------------------------------------------------------
(* Inputs *)

\* symbol k of the enumeration: rows pairwise distinct, and symbols
\* 0..31 contain every byte value once
InputSymbol(k) == [r \in Rows |-> ((8 * k + r) * 37) % ByteMod]

\* the symbols of the documented scenarios: one pixel at row 0 column 0,
\* and row 0 fully lit
PixelSymbol == [r \in Rows |-> IF r = 0 THEN 1 ELSE 0]
BarSymbol == [r \in Rows |-> IF r = 0 THEN 255 ELSE 0]

InputSymbols == {InputSymbol(k) : k \in 0..(NumSymbols - 1)} \cup {PixelSymbol, BarSymbol}

HShifts == 0..7
VShifts == (-MaxShift)..MaxShift

Buffers == {"a", "b", "c"}
Threads == {1, 2}
\* the (in, out) arguments a caller passes
CallBuffers == {<<"a", "b">>, <<"a", "c">>, <<"a", "a">>, <<"b", "c">>}
StepSymbols == {InputSymbol(k) : k \in 0..(NumStepSymbols - 1)}
StepVShifts == (-MaxStepShift)..MaxStepShift

IdleThread == [pc |-> "idle", fn |-> "-", in |-> "a", out |-> "a",
               arg |-> 0, shift |-> 0, r |-> 0, idx |-> 0]
NoWrites == [t \in Threads |-> [b \in Buffers |-> [i \in Rows |-> 0]]]
InitMem(sym) == [b \in Buffers |->
                   IF b = "a" THEN sym
                   ELSE IF b = "b" THEN InputSymbol(16)
                   ELSE InputSymbol(24)]

---------------------------------------------------------------------------
(* Spec: whole calls, chained *)

PureInit ==
    /\ input \in InputSymbols
    /\ prev = input
    /\ cur = input
    /\ calls = <<>>

StepsParked ==
    /\ mem = InitMem(InputSymbol(0))
    /\ mem0 = mem
    /\ thr = [t \in Threads |-> IdleThread]
    /\ row = [t \in Threads |-> 0]
    /\ wcount = NoWrites

Init == PureInit /\ StepsParked

\* shiftSymbolHorizontal(cur, out, shift), out then the current symbol
CallHorizontal ==
    /\ Len(calls) < MaxCalls
    /\ \E shift \in HShifts :
         /\ prev' = cur
         /\ cur' = ShiftSymbolHorizontal(cur, shift)
         /\ calls' = Append(calls, [fn |-> "H", shift |-> shift, eff |-> shift,
                                    src |-> [r \in Rows |-> HSrc(r)]])
    /\ UNCHANGED <<input, stepVars>>

\* shiftSymbolVertical(cur, out, shift), out then the current symbol
CallVertical ==
    /\ Len(calls) < MaxCalls
    /\ \E shift \in VShifts :
         /\ prev' = cur
         /\ cur' = ShiftSymbolVertical(cur, shift)
         /\ calls' = Append(calls, [fn |-> "V", shift |-> shift,
                                    eff |-> NormShift(shift),
                                    src |-> [r \in Rows |-> VSrc(r, NormShift(shift))]])
    /\ UNCHANGED <<input, stepVars>>

Next == CallHorizontal \/ CallVertical

Spec == Init /\ [][Next]_vars

---------------------------------------------------------------------------
(* Properties of whole calls (checked under Spec) *)

\* the last call of the chain: prev is its input and cur its output
HasCall == Len(calls) > 0
Last == calls[Len(calls)]

\* C1: after shiftSymbolHorizontal with a shift in 0..7 every output row r
\* is a byte that is the left rotation of input row r by shift: bit c of
\* in[r] is set exactly when bit (c + shift) mod 8 of out[r] is set, so that
\* out[r] is determined by in[r] alone.
C1_HorizontalRotatesLeft ==
    (HasCall /\ Last.fn = "H") =>
        \A r \in Rows :
            /\ cur[r] \in Bytes
            /\ \A c \in 0..7 :
                 Bit(prev[r], c) = Bit(cur[r], (c + Last.shift) % 8)

\* scenario 2: the pixel at column 0 wraps to the top bit under shift 7
C1_Witness ==
    /\ Len(calls) = 1
    /\ Last.fn = "H"
    /\ Last.shift = 7
    /\ input = PixelSymbol
    /\ cur = [r \in Rows |-> IF r = 0 THEN 128 ELSE 0]

\* C2: after shiftSymbolVertical with any shift, out[r] = in[(r - e + 8) mod 8]
\* for every row r, where e = ((shift mod 8) + 8) mod 8 (mathematical mod),
\* and the content of input row i is in output row (i + shift) mod 8.
C2_VerticalMovesRowsDown ==
    (HasCall /\ Last.fn = "V") =>
        LET e == ((Last.shift % 8) + 8) % 8 IN
        /\ \A r \in Rows : cur[r] = prev[(r - e + 8) % 8]
        /\ \A i \in Rows : cur[(i + Last.shift) % 8] = prev[i]

\* scenario 3: the lit row 0 moves to row 1 under shift 1
C2_Witness ==
    /\ Len(calls) = 1
    /\ Last.fn = "V"
    /\ Last.shift = 1
    /\ input = BarSymbol
    /\ cur = [r \in Rows |-> IF r = 1 THEN 255 ELSE 0]

\* C3: in every call of shiftSymbolVertical the normalised shift lies in
\* 0..7 and every row index read from the input lies in 0..7, also for the
\* negative shifts whose C remainder is negative; shift = -1 places the
\* content of input row 0 in output row 7.
C3_NormalisedShiftInRange ==
    /\ \A k \in 1..Len(calls) :
         calls[k].fn = "V" =>
            /\ calls[k].eff \in 0..7
            /\ \A r \in Rows : calls[k].src[r] \in Rows
    /\ (HasCall /\ Last.fn = "V" /\ Last.shift = -1) => cur[7] = prev[0]

\* scenario 4: the lit row 0 wraps to row 7 under shift -1
C3_Witness ==
    /\ Len(calls) = 1
    /\ Last.fn = "V"
    /\ Last.shift = -1
    /\ Last.eff = 7
    /\ input = BarSymbol
    /\ cur = [r \in Rows |-> IF r = 7 THEN 255 ELSE 0]

\* C4: shiftSymbolHorizontal by a shift in 1..7 followed by
\* shiftSymbolHorizontal of the result by 8 - shift returns the original
\* symbol, and shiftSymbolHorizontal by 0 returns its input.
C4_HorizontalRoundTrip ==
    /\ ( /\ Len(calls) = 2
         /\ calls[1].fn = "H"
         /\ calls[2].fn = "H"
         /\ calls[1].shift \in 1..7
         /\ calls[2].shift = 8 - calls[1].shift ) => cur = input
    /\ (HasCall /\ Last.fn = "H" /\ Last.shift = 0) => cur = prev

\* a rotation by 3 that changed the symbol, undone by the rotation by 5
C4_Witness ==
    /\ Len(calls) = 2
    /\ calls[1].fn = "H"
    /\ calls[2].fn = "H"
    /\ calls[1].shift = 3
    /\ calls[2].shift = 5
    /\ prev # input
    /\ cur = input

\* C5: shiftSymbolVertical by a followed by shiftSymbolVertical of the
\* result by b gives the symbol of one shiftSymbolVertical of the original
\* input by a + b.
C5_VerticalComposition ==
    ( /\ Len(calls) = 2
      /\ calls[1].fn = "V"
      /\ calls[2].fn = "V" ) =>
        cur = ShiftSymbolVertical(input, calls[1].shift + calls[2].shift)

\* a negative shift beyond one period followed by a positive one
C5_Witness ==
    /\ Len(calls) = 2
    /\ calls[1].fn = "V"
    /\ calls[2].fn = "V"
    /\ calls[1].shift = -9
    /\ calls[2].shift = 4
    /\ input = InputSymbol(1)
    /\ cur # input
    /\ cur # prev

\* C6: shiftSymbolVertical with shift s produces the output it produces with
\* shift s mod 8 and with shift s + 8*k, for every k.
C6_VerticalPeriodicity ==
    (HasCall /\ Last.fn = "V") =>
        /\ cur = ShiftSymbolVertical(prev, Last.shift % 8)
        /\ \A k \in (-MaxK)..MaxK :
             cur = ShiftSymbolVertical(prev, Last.shift + 8 * k)

\* a shift of -9, whose residue mod 8 is 7
C6_Witness ==
    /\ Len(calls) = 1
    /\ Last.fn = "V"
    /\ Last.shift = -9
    /\ input = InputSymbol(2)
    /\ cur[0] = input[1]
    /\ cur # input

\* C7: shiftSymbolVertical with shift 0 and with shift 8 each produce an
\* output equal to the input in all 8 rows.
C7_VerticalIdentity ==
    (HasCall /\ Last.fn = "V" /\ Last.shift \in {0, 8}) =>
        \A r \in Rows : cur[r] = prev[r]

\* a full wraparound of a symbol with pairwise distinct rows
C7_Witness ==
    /\ Len(calls) = 1
    /\ Last.fn = "V"
    /\ Last.shift = 8
    /\ input = InputSymbol(3)
    /\ cur = input

---------------------------------------------------------------------------
(* SpecSteps: two concurrent invocations, one memory access a step *)

\* a loop that stops one row early
LoopCondShort(r) == r < NumRows - 1

\* for (int r = 0; r < 8; r++): the loop condition
LoopCond(r) == r < NumRows

\* a row temporary with static storage: one slot for all invocations
RowSlotStatic(t) == 1

\* the storage of the temporary of invocation t (automatic: one per call)
RowSlot(t) == t

StepsInit ==
    /\ \E sym \in StepSymbols : mem = InitMem(sym)
    /\ mem0 = mem
    /\ thr = [t \in Threads |-> IdleThread]
    /\ row = [t \in Threads |-> 0]
    /\ wcount = NoWrites

PureParked ==
    /\ input = InputSymbol(0)
    /\ prev = input
    /\ cur = input
    /\ calls = <<>>

InitSteps == StepsInit /\ PureParked

\* position after the loop condition has been evaluated for row r
LoopPc(r) == IF LoopCond(r) THEN "load" ELSE "done"

\* the callers keep concurrent invocations free of data races: a call
\* writes no buffer another invocation reads or writes, and reads no
\* buffer another invocation writes
NoRace(t, bufs) ==
    \A o \in Threads \ {t} :
        \/ thr[o].pc = "idle"
        \/ /\ bufs[2] \notin {thr[o].in, thr[o].out}
           /\ bufs[1] # thr[o].out

\* entry of shiftSymbolHorizontal(in, out, shift), shift in 0..7
InvokeHorizontal(t) ==
    /\ thr[t].pc = "idle"
    /\ \E bufs \in CallBuffers, shift \in HShifts :
         /\ NoRace(t, bufs)
         /\ thr' = [thr EXCEPT ![t] = [pc |-> LoopPc(0), fn |-> "H",
                                    in |-> bufs[1], out |-> bufs[2],
                                    arg |-> shift, shift |-> shift,
                                    r |-> 0, idx |-> 0]]
    /\ UNCHANGED <<mem, mem0, row, wcount, pureVars>>

\* entry of shiftSymbolVertical(in, out, shift) and the normalisation of
\* its local shift
InvokeVertical(t) ==
    /\ thr[t].pc = "idle"
    /\ \E bufs \in CallBuffers, shift \in StepVShifts :
         /\ NoRace(t, bufs)
         /\ thr' = [thr EXCEPT ![t] = [pc |-> LoopPc(0), fn |-> "V",
                                    in |-> bufs[1], out |-> bufs[2],
                                    arg |-> shift, shift |-> NormShift(shift),
                                    r |-> 0, idx |-> 0]]
    /\ UNCHANGED <<mem, mem0, row, wcount, pureVars>>

\* uint8_t row = in[r]
HLoad(t) ==
    /\ thr[t].pc = "load"
    /\ thr[t].fn = "H"
    /\ LET i == HSrc(thr[t].r) IN
         /\ row' = [row EXCEPT ![RowSlot(t)] = mem[thr[t].in][i]]
         /\ thr' = [thr EXCEPT ![t].pc = "store", ![t].idx = i]
    /\ UNCHANGED <<mem, mem0, wcount, pureVars>>

\* out[r] = (row << shift) | (row >> (8 - shift)); r++
HStore(t) ==
    /\ thr[t].pc = "store"
    /\ thr[t].fn = "H"
    /\ mem' = [mem EXCEPT ![thr[t].out][thr[t].r] =
                             HRow(row[RowSlot(t)], thr[t].shift)]
    /\ wcount' = [wcount EXCEPT ![t][thr[t].out][thr[t].r] = @ + 1]
    /\ thr' = [thr EXCEPT ![t].r = @ + 1, ![t].pc = LoopPc(thr[t].r + 1)]
    /\ UNCHANGED <<mem0, row, pureVars>>

\* the load of in[(r - shift + 8) % 8]
VLoad(t) ==
    /\ thr[t].pc = "load"
    /\ thr[t].fn = "V"
    /\ LET i == VSrc(thr[t].r, thr[t].shift) IN
         /\ row' = [row EXCEPT ![RowSlot(t)] = mem[thr[t].in][i]]
         /\ thr' = [thr EXCEPT ![t].pc = "store", ![t].idx = i]
    /\ UNCHANGED <<mem, mem0, wcount, pureVars>>

\* the store to out[r]; r++
VStore(t) ==
    /\ thr[t].pc = "store"
    /\ thr[t].fn = "V"
    /\ mem' = [mem EXCEPT ![thr[t].out][thr[t].r] = row[RowSlot(t)]]
    /\ wcount' = [wcount EXCEPT ![t][thr[t].out][thr[t].r] = @ + 1]
    /\ thr' = [thr EXCEPT ![t].r = @ + 1, ![t].pc = LoopPc(thr[t].r + 1)]
    /\ UNCHANGED <<mem0, row, pureVars>>

NextSteps ==
    \E t \in Threads :
        \/ InvokeHorizontal(t)
        \/ InvokeVertical(t)
        \/ HLoad(t)
        \/ HStore(t)
        \/ VLoad(t)
        \/ VStore(t)

SpecSteps == InitSteps /\ [][NextSteps]_vars

---------------------------------------------------------------------------
(* Properties of the interleaved invocations (checked under SpecSteps) *)

Active == {t \in Threads : thr[t].pc # "idle"}

\* the output invocation t produces when it runs alone on separate buffers
Alone(t) ==
    IF thr[t].fn = "H"
    THEN ShiftSymbolHorizontal(mem0[thr[t].in], thr[t].arg)
    ELSE ShiftSymbolVertical(mem0[thr[t].in], thr[t].arg)

\* every invocation writes a buffer that is neither its own input nor a
\* buffer of another invocation
NonAliasedOutputs ==
    \A t \in Active :
        /\ thr[t].out # thr[t].in
        /\ \A o \in Active \ {t} : thr[t].out \notin {thr[o].in, thr[o].out}

\* C8: when the invocations run with their loop steps interleaved, possibly
\* reading the same input buffer, each writing an output buffer that aliases
\* no other buffer, the final output of each invocation is the output it
\* produces when run alone; the rows an invocation has written so far are
\* already those of that output.
C8_ConcurrentCallsIndependent ==
    NonAliasedOutputs =>
        \A t \in Active :
            /\ \A i \in Rows :
                 i < thr[t].r => mem[thr[t].out][i] = Alone(t)[i]
            /\ thr[t].pc = "done" => mem[thr[t].out] = Alone(t)

\* a horizontal and a vertical invocation that both read buffer a, the
\* vertical one having returned while the horizontal one is in its loop
C8_Witness ==
    /\ thr[1].fn = "H"
    /\ thr[2].fn = "V"
    /\ thr[1].in = "a"
    /\ thr[2].in = "a"
    /\ thr[1].out = "b"
    /\ thr[2].out = "c"
    /\ thr[1].arg = 3
    /\ thr[2].arg = -1
    /\ thr[1].pc = "store"
    /\ thr[1].r = 4
    /\ thr[2].pc = "done"
    /\ mem["c"] = ShiftSymbolVertical(mem0["a"], -1)
    /\ mem["c"] # mem0["c"]

\* C9: during and after a call with an output buffer distinct from its
\* input, the call has written nothing but its output buffer, rows 0..r-1
\* of it once each and the other rows not yet, all 8 rows once when it has
\* returned; every buffer that is the output of no invocation, the input
\* included, holds its initial content.
C9_WritesOnlyOutputOnce ==
    \A t \in Active :
        thr[t].out # thr[t].in =>
            /\ \A b \in Buffers \ {thr[t].out} :
                 \A i \in Rows : wcount[t][b][i] = 0
            /\ \A i \in Rows :
                 wcount[t][thr[t].out][i] = IF i < thr[t].r THEN 1 ELSE 0
            /\ thr[t].pc = "done" =>
                 \A i \in Rows : wcount[t][thr[t].out][i] = 1
            /\ \A b \in Buffers \ {thr[o].out : o \in Active} :
                 mem[b] = mem0[b]

\* a returned vertical call from a to b that changed b and left a alone
C9_Witness ==
    /\ thr[1].pc = "done"
    /\ thr[1].fn = "V"
    /\ thr[1].in = "a"
    /\ thr[1].out = "b"
    /\ thr[1].arg = 2
    /\ thr[2].pc = "idle"
    /\ \A i \in Rows : wcount[1]["b"][i] = 1
    /\ mem["a"] = mem0["a"]
    /\ mem["b"] # mem0["b"]
    /\ mem["c"] = mem0["c"]

\* C10: a call of shiftSymbolHorizontal whose output buffer is its input
\* buffer reads row r in the step that writes row r and no other row, and
\* leaves in the buffer the result of the call on separate buffers; a step
\* r of shiftSymbolVertical reads a row other than r whenever the normalised
\* shift is not zero.
C10_HorizontalInPlace ==
    \A t \in Active :
        /\ (thr[t].fn = "H" /\ thr[t].in = thr[t].out) =>
              /\ thr[t].pc = "store" => thr[t].idx = thr[t].r
              /\ thr[t].pc = "done" =>
                    mem[thr[t].out] = ShiftSymbolHorizontal(mem0[thr[t].in], thr[t].arg)
        /\ (thr[t].fn = "V" /\ thr[t].pc = "store" /\ thr[t].shift # 0) =>
              thr[t].idx # thr[t].r

\* a returned in-place rotation by 3 that changed the buffer
C10_Witness ==
    /\ thr[1].pc = "done"
    /\ thr[1].fn = "H"
    /\ thr[1].in = "a"
    /\ thr[1].out = "a"
    /\ thr[1].arg = 3
    /\ mem["a"] # mem0["a"]
    /\ mem["a"] = ShiftSymbolHorizontal(mem0["a"], 3)

\* the in-place vertical call: the buffer it leaves differs from the result
\* of the call on separate buffers
VerticalInPlaceDiffers ==
    \E t \in Active :
        /\ thr[t].pc = "done"
        /\ thr[t].fn = "V"
        /\ thr[t].in = thr[t].out
        /\ mem[thr[t].out] # ShiftSymbolVertical(mem0[thr[t].in], thr[t].arg)

====
